---- MODULE Spec2Model ----
(***************************************************************************)
(* Focal losses of mmdet/models/losses/focal_loss.py:                      *)
(*   py_sigmoid_focal_loss, sigmoid_focal_loss, FocalLoss and              *)
(*   BinaryFocalLoss.                                                      *)
(*                                                                         *)
(* Tensors are records [shape, data] with data in row-major order.         *)
(* Probabilities are held in hundredths (PScale), alpha in quarters        *)
(* (AScale), heatmap targets in halves (TScale).  A logarithm is never     *)
(* evaluated: a loss element is kept as exact integer coefficients of      *)
(* -log(p) and -log(1-p), over a denominator fixed by the hyperparameters. *)
(***************************************************************************)
EXTENDS Integers, Sequences, FiniteSets, TLC

VARIABLES
    focal,      \* the FocalLoss instance (its attributes), or None
    ctor,       \* the last FocalLoss(...) construction: its use_sigmoid, its outcome
    tampered,   \* an attribute of the instance was assigned after construction
    fcall,      \* the last FocalLoss.forward call: arguments, trace, result
    heat,       \* the BinaryFocalLoss instance (its attributes), or None
    inputs,     \* the caller's `inputs` tensor object (flattened heatmap)
    inputs0,    \* contents of `inputs` when the caller created it
    targets,    \* the caller's `targets` tensor object
    pos_inds,   \* the caller's `pos_inds` tensor object
    bcalls      \* the BinaryFocalLoss.forward calls made so far, in order

vars == <<focal, ctor, tampered, fcall, heat, inputs, inputs0, targets, pos_inds, bcalls>>
focalVars == <<focal, ctor, tampered, fcall>>
heatVars == <<heat, inputs, inputs0, targets, pos_inds, bcalls>>

(***************************************************************************)
(* Bounds of the model.                                                    *)
(***************************************************************************)
MaxN == 2
MaxC == 2
MaxCalls == 2
MaxBeta == 2
HeatLen == 2

(***************************************************************************)
(* Units of the fixed-point representation and default hyperparameters.    *)
(***************************************************************************)
PScale == 100
AScale == 4
TScale == 2
GammaDefault == 2
AlphaDefault == 1
\* sigmoid_clamp of the modelled instances: 0.01, the smallest step of the
\* representation (the default 1e-4 is below it).
SigmoidClamp == 1

None == [none |-> TRUE]
IsNone(v) == DOMAIN v = {"none"}

Max(a, b) == IF a >= b THEN a ELSE b

RECURSIVE Pow(_, _)
Pow(b, e) == IF e = 0 THEN 1 ELSE b * Pow(b, e - 1)

RECURSIVE Prod(_)
Prod(s) == IF s = <<>> THEN 1 ELSE Head(s) * Prod(Tail(s))

(***************************************************************************)
(* torch.Tensor: shape, numel, view, broadcasting.                         *)
(***************************************************************************)
Tensor(shape, data) == [shape |-> shape, data |-> data]
Err(kind, stage) == [err |-> kind, stage |-> stage]
IsErr(v) == DOMAIN v = {"err", "stage"}

Numel(t) == Prod(t.shape)
Ndim(t) == Len(t.shape)

\* Tensor.view(shape) with at most one -1, which is inferred.
View(t, shape) ==
    LET known == Prod([k \in 1..Len(shape) |-> IF shape[k] = -1 THEN 1 ELSE shape[k]])
        full == [k \in 1..Len(shape) |->
                    IF shape[k] = -1 THEN Numel(t) \div known ELSE shape[k]]
    IN  IF known = 0 \/ Numel(t) % known # 0 \/ Prod(full) # Numel(t)
        THEN Err("RuntimeError", "view")
        ELSE Tensor(full, t.data)

PadShape(s, r) == [k \in 1..r |-> IF k <= r - Len(s) THEN 1 ELSE s[k - (r - Len(s))]]

Broadcastable(a, b) ==
    LET r == Max(Len(a), Len(b))
    IN  \A k \in 1..r :
            \/ PadShape(a, r)[k] = PadShape(b, r)[k]
            \/ PadShape(a, r)[k] = 1
            \/ PadShape(b, r)[k] = 1

BroadcastShape(a, b) ==
    LET r == Max(Len(a), Len(b))
    IN  [k \in 1..r |-> Max(PadShape(a, r)[k], PadShape(b, r)[k])]

\* Stride of dimension d, and the 0-based multi-index of flat position k.
Stride(shape, d) == Prod(SubSeq(shape, d + 1, Len(shape)))
Unravel(k, shape) == [d \in 1..Len(shape) |-> (k \div Stride(shape, d)) % shape[d]]

RECURSIVE RavelFrom(_, _, _)
RavelFrom(idx, shape, d) ==
    IF d > Len(shape) THEN 0
    ELSE idx[d] * Stride(shape, d) + RavelFrom(idx, shape, d + 1)

\* The element of t that broadcasting aligns with flat position k (0-based)
\* of a tensor of shape `out`.
BroadcastGet(t, out, k) ==
    LET r == Len(out)
        p == PadShape(t.shape, r)
        idx == Unravel(k, out)
        own == [d \in 1..r |-> IF p[d] = 1 THEN 0 ELSE idx[d]]
    IN  t.data[RavelFrom(own, p, 1) + 1]

\* Element (i, j), 0-based, of a matrix.
At(t, i, j) == t.data[i * t.shape[2] + j + 1]

(***************************************************************************)
(* Tensor.sigmoid(), to two decimals, over the values the model uses.      *)
(***************************************************************************)
Sigmoid(x) ==
    CASE x = -600 -> 0
      [] x = -200 -> 12
      [] x = 0 -> 50
      [] x = 12 -> 53
      [] x = 50 -> 62
      [] x = 53 -> 63
      [] x = 62 -> 65
      [] x = 63 -> 65
      [] x = 65 -> 66
      [] x = 66 -> 66
      [] x = 67 -> 66
      [] x = 71 -> 67
      [] x = 88 -> 71
      [] x = 200 -> 88

(***************************************************************************)
(* F.one_hot(target, num_classes) and the slice target[:, :num_classes].   *)
(***************************************************************************)
one_hot(target, num_classes) ==
    IF \E k \in 1..Numel(target) :
            target.data[k] < 0 \/ target.data[k] >= num_classes
    THEN Err("RuntimeError", "one_hot")
    ELSE Tensor(target.shape \o <<num_classes>>,
                [k \in 1..(Numel(target) * num_classes) |->
                    IF target.data[((k - 1) \div num_classes) + 1]
                            = (k - 1) % num_classes
                    THEN 1 ELSE 0])

\* The slice t[:, 1:], which drops the first column in place of the last.
SliceColsFromOne(t, n) ==
    LET shape == [d \in 1..Ndim(t) |->
                    IF d = 2 /\ n < t.shape[2] THEN n ELSE t.shape[d]]
        moved(idx) == [d \in 1..Ndim(t) |->
                        IF d = 2 THEN idx[d] + (t.shape[2] - shape[2]) ELSE idx[d]]
    IN  Tensor(shape,
               [k \in 1..Prod(shape) |->
                    t.data[RavelFrom(moved(Unravel(k - 1, shape)), t.shape, 1) + 1]])

\* t[:, :n] of a tensor of at least two dimensions.
SliceCols(t, n) ==
    LET shape == [d \in 1..Ndim(t) |->
                    IF d = 2 /\ n < t.shape[2] THEN n ELSE t.shape[d]]
    IN  Tensor(shape,
               [k \in 1..Prod(shape) |->
                    t.data[RavelFrom(Unravel(k - 1, shape), t.shape, 1) + 1]])

(***************************************************************************)
(* The focal loss of one element with logit x and label t: the            *)
(* coefficients cp of -log(p) and cq of -log(1 - p), p = sigmoid(x), over  *)
(* the denominator AScale * PScale^gamma.                                  *)
(***************************************************************************)
FocalElement(x, t, gamma, alpha) ==
    LET p == Sigmoid(x)
        pt == (PScale - p) * t + p * (1 - t)
        focal_weight == (alpha * t + (AScale - alpha) * (1 - t)) * Pow(pt, gamma)
    IN  [x |-> x, cp |-> t * focal_weight, cq |-> (1 - t) * focal_weight]

ScaleElement(e, w) == [x |-> e.x, cp |-> e.cp * w, cq |-> e.cq * w]

(***************************************************************************)
(* .utils.weight_reduce_loss: the elementwise weight, then the reduction.  *)
(* A sum or mean is kept as its terms and its divisor.                     *)
(***************************************************************************)
ReductionModes == {"none", "mean", "sum"}

RECURSIVE SumSeq(_)
SumSeq(s) == IF s = <<>> THEN 0 ELSE Head(s) + SumSeq(Tail(s))

weight_reduce_loss(loss, weight, reduction, avg_factor) ==
    IF ~IsNone(weight) /\ ~Broadcastable(loss.shape, weight.shape)
    THEN Err("RuntimeError", "reduce")
    ELSE
    LET shape == IF IsNone(weight) THEN loss.shape
                 ELSE BroadcastShape(loss.shape, weight.shape)
        n == Prod(shape)
        wts == [k \in 1..n |->
                    IF IsNone(weight) THEN 1 ELSE BroadcastGet(weight, shape, k - 1)]
        weighted == [k \in 1..n |->
                        ScaleElement(BroadcastGet(loss, shape, k - 1), wts[k])]
    IN  IF reduction \notin ReductionModes THEN Err("ValueError", "reduce")
        ELSE IF reduction = "none"
        THEN [reduction |-> "none", shape |-> shape, terms |-> weighted, div |-> 1]
        ELSE IF reduction = "sum"
        THEN IF IsNone(avg_factor)
             THEN [reduction |-> "sum", shape |-> <<>>, terms |-> weighted, div |-> 1]
             ELSE Err("ValueError", "reduce")
        ELSE [reduction |-> "mean", shape |-> <<>>, terms |-> weighted,
              div |-> IF ~IsNone(avg_factor) THEN avg_factor.val
                      ELSE IF ~IsNone(weight) THEN SumSeq(wts)
                      ELSE n]

\* scalar * loss
ScaleLoss(w, r) ==
    [r EXCEPT !.terms = [k \in 1..Len(r.terms) |-> ScaleElement(r.terms[k], w)]]

(***************************************************************************)
(* The weight handling of py_sigmoid_focal_loss (lines 40-53) and of       *)
(* sigmoid_focal_loss (lines 85-98).                                       *)
(***************************************************************************)
\* The reshape to a row vector, view(1, -1), in place of view(-1, 1).
py_weight_row_vector(weight, loss) ==
    LET reshaped ==
            IF weight.shape # loss.shape
            THEN IF Ndim(weight) = 0 THEN Err("IndexError", "weight")
                 ELSE IF weight.shape[1] = loss.shape[1]
                 THEN View(weight, <<1, -1>>)
                 ELSE IF Numel(weight) # Numel(loss)
                 THEN Err("AssertionError", "weight")
                 ELSE View(weight, <<loss.shape[1], -1>>)
            ELSE weight
    IN  IF IsNone(weight) THEN weight
        ELSE IF IsErr(reshaped) THEN reshaped
        ELSE IF Ndim(reshaped) # Ndim(loss) THEN Err("AssertionError", "weight")
        ELSE reshaped

py_weight(weight, loss) ==
    LET reshaped ==
            IF weight.shape # loss.shape
            THEN IF Ndim(weight) = 0 THEN Err("IndexError", "weight")
                 ELSE IF weight.shape[1] = loss.shape[1]
                 THEN View(weight, <<-1, 1>>)
                 ELSE IF Numel(weight) # Numel(loss)
                 THEN Err("AssertionError", "weight")
                 ELSE View(weight, <<loss.shape[1], -1>>)
            ELSE weight
    IN  IF IsNone(weight) THEN weight
        ELSE IF IsErr(reshaped) THEN reshaped
        ELSE IF Ndim(reshaped) # Ndim(loss) THEN Err("AssertionError", "weight")
        ELSE reshaped

cuda_weight(weight, loss) ==
    LET reshaped ==
            IF weight.shape # loss.shape
            THEN IF Ndim(weight) = 0 THEN Err("IndexError", "weight")
                 ELSE IF weight.shape[1] = loss.shape[1]
                 THEN View(weight, <<-1, 1>>)
                 ELSE IF Numel(weight) # Numel(loss)
                 THEN Err("AssertionError", "weight")
                 ELSE View(weight, <<loss.shape[1], -1>>)
            ELSE weight
    IN  IF IsNone(weight) THEN weight
        ELSE IF IsErr(reshaped) THEN reshaped
        ELSE IF Ndim(reshaped) # Ndim(loss) THEN Err("AssertionError", "weight")
        ELSE reshaped

\* What a loss function hands back to forward: how it ended and where, the
\* unreduced loss, the weight after the weight handling, the returned value.
Trace(outcome, stage, loss, wview, out) ==
    [outcome |-> outcome, stage |-> stage, loss |-> loss, wview |-> wview, out |-> out]

Finish(loss, w, reduction, avg_factor) ==
    IF IsErr(w) THEN Trace(w.err, w.stage, loss, None, None)
    ELSE LET r == weight_reduce_loss(loss, w, reduction, avg_factor)
         IN  IF IsErr(r) THEN Trace(r.err, r.stage, loss, w, None)
             ELSE Trace("ok", "done", loss, w, r)

(***************************************************************************)
(* py_sigmoid_focal_loss                                                   *)
(***************************************************************************)
py_sigmoid_focal_loss(pred, target, weight, gamma, alpha, reduction, avg_factor) ==
    IF ~Broadcastable(pred.shape, target.shape)
    THEN Trace("RuntimeError", "formula", None, None, None)
    ELSE IF target.shape # pred.shape
    THEN Trace("ValueError", "formula", None, None, None)
    ELSE LET loss == Tensor(pred.shape,
                        [k \in 1..Numel(pred) |->
                            FocalElement(pred.data[k], target.data[k], gamma, alpha)])
         IN  Finish(loss, py_weight(weight, loss), reduction, avg_factor)

(***************************************************************************)
(* mmcv.ops.sigmoid_focal_loss, the fused kernel: class indices of shape   *)
(* (N,) only; element (i, j) is a positive exactly when target[i] = j.     *)
(***************************************************************************)
mmcv_sigmoid_focal_loss(pred, target, gamma, alpha) ==
    IF Ndim(target) # 1 \/ Ndim(pred) # 2 THEN Err("AssertionError", "formula")
    ELSE IF target.shape[1] # pred.shape[1] THEN Err("AssertionError", "formula")
    ELSE Tensor(pred.shape,
            [k \in 1..Numel(pred) |->
                FocalElement(pred.data[k],
                    IF target.data[((k - 1) \div pred.shape[2]) + 1]
                            = (k - 1) % pred.shape[2]
                    THEN 1 ELSE 0,
                    gamma, alpha)])

(***************************************************************************)
(* sigmoid_focal_loss                                                      *)
(***************************************************************************)
sigmoid_focal_loss(pred, target, weight, gamma, alpha, reduction, avg_factor) ==
    LET loss == mmcv_sigmoid_focal_loss(pred, target, gamma, alpha)
    IN  IF IsErr(loss) THEN Trace(loss.err, loss.stage, None, None, None)
        ELSE Finish(loss, cuda_weight(weight, loss), reduction, avg_factor)

(***************************************************************************)
(* FocalLoss                                                               *)
(***************************************************************************)
\* Python values of use_sigmoid: True, False, the integer 1, None.
UseSigmoidValues == {"True", "False", "1", "None"}
Truthy(v) == v \in {"True", "1"}

\* reduction_override: "None" is Python's None, the rest are strings.
EntryCheck(reduction_override) == reduction_override \in {"None", "none", "mean", "sum"}
EffectiveReduction(reduction_override, default) ==
    IF reduction_override # "None" THEN reduction_override ELSE default

\* The assertion as a truth test, `assert use_sigmoid`, in place of `is True`.
FocalLoss_init_truthy(use_sigmoid, gamma, alpha, reduction, loss_weight) ==
    IF ~Truthy(use_sigmoid) THEN Err("AssertionError", "init")
    ELSE [use_sigmoid |-> use_sigmoid, gamma |-> gamma, alpha |-> alpha,
          reduction |-> reduction, loss_weight |-> loss_weight]

\* FocalLoss.__init__: the attributes of the new instance, or the error.
FocalLoss_init(use_sigmoid, gamma, alpha, reduction, loss_weight) ==
    IF use_sigmoid # "True" THEN Err("AssertionError", "init")
    ELSE [use_sigmoid |-> use_sigmoid, gamma |-> gamma, alpha |-> alpha,
          reduction |-> reduction, loss_weight |-> loss_weight]

NoCall == [made |-> FALSE]
CallMade(c) == c.made

FocalCall(self, pred, target, weight, avg_factor, reduction_override, is_cuda, path, handed, tr) ==
    [made |-> TRUE, use_sigmoid |-> self.use_sigmoid, default |-> self.reduction,
     pred |-> pred, target |-> target, weight |-> weight, avg_factor |-> avg_factor,
     override |-> reduction_override, is_cuda |-> is_cuda,
     path |-> path, handed |-> handed,
     outcome |-> tr.outcome, stage |-> tr.stage, loss |-> tr.loss,
     wview |-> tr.wview,
     out |-> IF tr.outcome = "ok" THEN ScaleLoss(self.loss_weight, tr.out) ELSE None]

\* FocalLoss.forward
FocalLoss_forward(self, pred, target, weight, avg_factor, reduction_override, is_cuda) ==
    LET reduction == EffectiveReduction(reduction_override, self.reduction)
        num_classes == pred.shape[2]
        hot == one_hot(target, num_classes + 1)
        call(path, handed, tr) ==
            FocalCall(self, pred, target, weight, avg_factor, reduction_override,
                      is_cuda, path, handed, tr)
    IN  IF ~EntryCheck(reduction_override)
        THEN call("-", None, Trace("AssertionError", "entry", None, None, None))
        ELSE IF ~Truthy(self.use_sigmoid)
        THEN call("-", None, Trace("NotImplementedError", "dispatch", None, None, None))
        ELSE IF is_cuda
        THEN call("cuda", target,
                  sigmoid_focal_loss(pred, target, weight, self.gamma, self.alpha,
                                     reduction, avg_factor))
        ELSE IF IsErr(hot)
        THEN call("py", None, Trace(hot.err, hot.stage, None, None, None))
        ELSE call("py", SliceCols(hot, num_classes),
                  py_sigmoid_focal_loss(pred, SliceCols(hot, num_classes), weight,
                                        self.gamma, self.alpha, reduction, avg_factor))

(***************************************************************************)
(* Arguments the callers of FocalLoss pass.                                *)
(***************************************************************************)
LogitCycle == <<200, -200, 0>>
PredOf(N, C) == Tensor(<<N, C>>, [k \in 1..(N * C) |-> LogitCycle[((k - 1) % 3) + 1]])
Preds == {PredOf(N, C) : N \in 1..MaxN, C \in 1..MaxC}

\* (N,) class indices, from one below to one above the range 0..C.
ClassIndexTargets(N, C) == {Tensor(<<N>>, d) : d \in [1..N -> (-1)..(C + 1)]}
\* (N,C) binary labels: every row labelled class j (no class when j = C).
BinaryTargets(N, C) ==
    {Tensor(<<N, C>>, [k \in 1..(N * C) |-> IF (k - 1) % C = j THEN 1 ELSE 0]) :
        j \in 0..C}
TargetsFor(pred) ==
    ClassIndexTargets(pred.shape[1], pred.shape[2])
        \cup BinaryTargets(pred.shape[1], pred.shape[2])

Arange(shape) == Tensor(shape, [k \in 1..Prod(shape) |-> k + 1])
RowWeights(pred) == {None, Arange(<<pred.shape[1]>>)}

\* Weights of every shape of up to three dimensions, told apart by position.
WDim == MaxN * MaxC + 1
WeightShapes ==
    {<<>>} \cup {<<a>> : a \in 1..WDim}
           \cup {<<a, b>> : a \in 1..WDim, b \in 1..WDim}
           \cup {<<a, b, c>> : a \in 1..WDim, b \in 1..WDim, c \in 1..2}
AnyWeights == {Arange(sh) : sh \in WeightShapes}
\* One valid (N,) class-index target: row i is labelled class i mod (C + 1).
CycleTarget(pred) ==
    Tensor(<<pred.shape[1]>>, [i \in 1..pred.shape[1] |-> (i - 1) % (pred.shape[2] + 1)])

Overrides == {"None", "none", "sum", "avg"}
CtorReductions == {"mean", "none", "avg"}

(***************************************************************************)
(* Operations on a FocalLoss.                                              *)
(***************************************************************************)
Construct ==
    /\ IsNone(focal)
    /\ \E use_sigmoid \in UseSigmoidValues, reduction \in CtorReductions :
        LET made == FocalLoss_init(use_sigmoid, GammaDefault, AlphaDefault, reduction, 1)
        IN  /\ focal' = IF IsErr(made) THEN focal ELSE made
            /\ ctor' = [use_sigmoid |-> use_sigmoid,
                        outcome |-> IF IsErr(made) THEN made.err ELSE "ok"]
    /\ UNCHANGED <<tampered, fcall, heatVars>>

\* The caller assigns the attribute: loss.use_sigmoid = v.
SetUseSigmoid ==
    /\ ~IsNone(focal)
    /\ \E v \in {"True", "False"} :
        focal' = [focal EXCEPT !.use_sigmoid = v]
    /\ tampered' = TRUE
    /\ UNCHANGED <<ctor, fcall, heatVars>>

Forward ==
    /\ ~IsNone(focal)
    /\ ~CallMade(fcall)
    /\ \E pred \in Preds, is_cuda \in BOOLEAN, reduction_override \in Overrides :
       \E target \in TargetsFor(pred), weight \in RowWeights(pred) :
        fcall' = FocalLoss_forward(focal, pred, target, weight, None,
                                   reduction_override, is_cuda)
    /\ UNCHANGED <<focal, ctor, tampered, heatVars>>

\* forward with a weight of any shape, the other arguments plain.
ForwardWeighted ==
    /\ ~IsNone(focal)
    /\ ~CallMade(fcall)
    /\ \E pred \in Preds, is_cuda \in BOOLEAN, weight \in AnyWeights,
          avg_factor \in {None, [val |-> 2]} :
        fcall' = FocalLoss_forward(focal, pred, CycleTarget(pred), weight, avg_factor,
                                   "none", is_cuda)
    /\ UNCHANGED <<focal, ctor, tampered, heatVars>>

\* forward has returned or raised; the caller is ready for the next call.
Return ==
    /\ CallMade(fcall)
    /\ fcall' = NoCall
    /\ UNCHANGED <<focal, ctor, tampered, heatVars>>

(***************************************************************************)
(* BinaryFocalLoss                                                         *)
(***************************************************************************)
BinaryFocalLoss_init(alpha, beta, gamma, weight, sigmoid_clamp, ignore_high_fp, reduction) ==
    [alpha |-> alpha, beta |-> beta, gamma |-> gamma, weight |-> weight,
     sigmoid_clamp |-> sigmoid_clamp, ignore_high_fp |-> ignore_high_fp,
     reduction |-> reduction]

\* torch.clamp(x, min, max)
Clamp(x, lo, hi) == IF x < lo THEN lo ELSE IF x > hi THEN hi ELSE x

\* inputs.sigmoid_(): the new contents of the tensor it is called on.
SigmoidInPlace(t) == Tensor(t.shape, [k \in 1..Numel(t) |-> Sigmoid(t.data[k])])

\* torch.pow(targets, beta): the complement 1 - targets forgotten.
NegWeightOfTarget(target, beta) == Pow(target, beta)

\* torch.pow(1 - targets, beta) at one location: the numerator over TScale^beta.
NegWeight(target, beta) == Pow(TScale - target, beta)

\* log(pos_pred) * (1 - pos_pred)^gamma, over PScale^gamma.
PosElement(p, gamma) == [x |-> p, cp |-> -Pow(PScale - p, gamma), cq |-> 0]

\* log(1 - pred) * pred^gamma * neg_weights, over PScale^gamma * TScale^beta.
NegElement(p, gamma, neg_weight) == [x |-> p, cp |-> 0, cq |-> -(Pow(p, gamma) * neg_weight)]

\* The comparison as pred <= ignore_high_fp.
IgnoreHighFpInclusive(self, pred, neg_loss) ==
    IF self.ignore_high_fp > 0
    THEN Tensor(neg_loss.shape,
            [k \in 1..Numel(neg_loss) |->
                ScaleElement(neg_loss.data[k],
                             IF pred.data[k] <= self.ignore_high_fp THEN 1 ELSE 0)])
    ELSE neg_loss

\* not_high_fp = (pred < ignore_high_fp).float(); neg_loss = not_high_fp * neg_loss
IgnoreHighFp(self, pred, neg_loss) ==
    IF self.ignore_high_fp > 0
    THEN Tensor(neg_loss.shape,
            [k \in 1..Numel(neg_loss) |->
                ScaleElement(neg_loss.data[k],
                             IF pred.data[k] < self.ignore_high_fp THEN 1 ELSE 0)])
    ELSE neg_loss

\* pos_loss = -alpha * pos_loss; neg_loss = -(1 - alpha) * neg_loss, when alpha >= 0
AlphaScale(self, loss, factor) ==
    IF self.alpha >= 0
    THEN Tensor(loss.shape,
            [k \in 1..Numel(loss) |-> ScaleElement(loss.data[k], factor)])
    ELSE loss

HeatCall(override, outcome, stage, before, after, pred, neg_weights, neg_raw, neg_kept, pos_raw, pos_loss, neg_loss) ==
    [override |-> override, outcome |-> outcome, stage |-> stage,
     before |-> before, after |-> after, pred |-> pred,
     neg_weights |-> neg_weights, neg_raw |-> neg_raw, neg_kept |-> neg_kept,
     pos_raw |-> pos_raw, pos_loss |-> pos_loss, neg_loss |-> neg_loss]

\* BinaryFocalLoss.forward: the record of the call; `after` is what the call
\* leaves in the caller's `inputs`.
BinaryFocalLoss_forward(self, inp, tgt, pos, pos_weight, neg_weight, avg_factor, reduction_override) ==
    LET reduction == EffectiveReduction(reduction_override, self.reduction)
        squashed == SigmoidInPlace(inp)
        pred == Tensor(inp.shape,
                    [k \in 1..Numel(inp) |->
                        Clamp(squashed.data[k], self.sigmoid_clamp,
                              PScale - self.sigmoid_clamp)])
        neg_weights == [k \in 1..Numel(tgt) |-> NegWeight(tgt.data[k], self.beta)]
        pos_pred == [k \in 1..Numel(pos) |-> pred.data[pos.data[k] + 1]]
        pos_raw == Tensor(pos.shape,
                    [k \in 1..Numel(pos) |-> PosElement(pos_pred[k], self.gamma)])
        neg_raw == Tensor(inp.shape,
                    [k \in 1..Numel(inp) |->
                        NegElement(pred.data[k], self.gamma, neg_weights[k])])
        neg_kept == IgnoreHighFp(self, pred, neg_raw)
        pos_scaled == AlphaScale(self, pos_raw, -self.alpha)
        neg_scaled == AlphaScale(self, neg_kept, -(AScale - self.alpha))
        pos_red == weight_reduce_loss(pos_scaled, pos_weight, reduction, avg_factor)
        neg_red == weight_reduce_loss(neg_scaled, neg_weight, reduction, avg_factor)
    IN  IF ~EntryCheck(reduction_override)
        THEN HeatCall(reduction_override, "AssertionError", "entry", inp, inp,
                      None, None, None, None, None, None, None)
        ELSE IF IsErr(pos_red)
        THEN HeatCall(reduction_override, pos_red.err, pos_red.stage, inp, squashed,
                      pred, neg_weights, neg_raw, neg_kept, pos_raw, None, None)
        ELSE IF IsErr(neg_red)
        THEN HeatCall(reduction_override, neg_red.err, neg_red.stage, inp, squashed,
                      pred, neg_weights, neg_raw, neg_kept, pos_raw, None, None)
        ELSE HeatCall(reduction_override, "ok", "done", inp, squashed,
                      pred, neg_weights, neg_raw, neg_kept, pos_raw,
                      ScaleLoss(self.weight, pos_red), ScaleLoss(self.weight, neg_red))

(***************************************************************************)
(* The heatmaps and hyperparameters the callers of BinaryFocalLoss use.    *)
(***************************************************************************)
HeatLogits == {-600, 0}
TargetLevels == 0..TScale
Heatmaps == {Tensor(<<HeatLen>>, d) : d \in [1..HeatLen -> HeatLogits]}
TargetMaps == {Tensor(<<HeatLen>>, d) : d \in [1..HeatLen -> TargetLevels]}

\* Index tensors: the first n locations of the heatmap are the positives.
IndexTensor(n) == Tensor(<<n>>, [k \in 1..n |-> k - 1])
PosIndexSets == {IndexTensor(n) : n \in 0..HeatLen}

IgnoreOff == -100
IgnoreHalf == PScale \div 2
\* The defaults with every beta; then ignore_high_fp = 0.5, a negative alpha,
\* and the reductions 'none' and (malformed) 'avg', each with weight 2.
HeatConfigs ==
    {BinaryFocalLoss_init(AlphaDefault, beta, GammaDefault, 1, SigmoidClamp, IgnoreOff, "mean") :
        beta \in 0..MaxBeta}
    \cup {BinaryFocalLoss_init(AlphaDefault, 1, GammaDefault, 1, SigmoidClamp, IgnoreHalf, "mean")}
    \cup {BinaryFocalLoss_init(-1, 1, GammaDefault, 1, SigmoidClamp, IgnoreHalf, "mean")}
    \cup {BinaryFocalLoss_init(AlphaDefault, 1, GammaDefault, 2, SigmoidClamp, IgnoreOff, r) :
            r \in {"none", "avg"}}
HeatOverrides == {"None", "sum", "avg"}

(***************************************************************************)
(* Operations on a BinaryFocalLoss.                                        *)
(***************************************************************************)
ConstructHeat ==
    /\ IsNone(heat)
    /\ heat' \in HeatConfigs
    /\ UNCHANGED <<inputs, inputs0, targets, pos_inds, bcalls, focalVars>>

\* One more call with the caller's same three tensor objects.
ForwardHeat ==
    /\ ~IsNone(heat)
    /\ Len(bcalls) < MaxCalls
    /\ \E reduction_override \in HeatOverrides :
        LET call == BinaryFocalLoss_forward(heat, inputs, targets, pos_inds,
                                            None, None, None, reduction_override)
        IN  /\ inputs' = call.after
            /\ bcalls' = Append(bcalls, call)
    /\ UNCHANGED <<heat, inputs0, targets, pos_inds, focalVars>>

(***************************************************************************)
(* Specifications: a FocalLoss and its forward calls; a FocalLoss called   *)
(* with weights of every shape; a BinaryFocalLoss and its forward calls.   *)
(***************************************************************************)
IdleHeat ==
    /\ heat = None
    /\ inputs = Tensor(<<0>>, <<>>)
    /\ inputs0 = inputs
    /\ targets = Tensor(<<0>>, <<>>)
    /\ pos_inds = Tensor(<<0>>, <<>>)
    /\ bcalls = <<>>

IdleFocal ==
    /\ focal = None
    /\ ctor = [use_sigmoid |-> "-", outcome |-> "none"]
    /\ tampered = FALSE
    /\ fcall = NoCall

Init == IdleFocal /\ IdleHeat
Next == Construct \/ SetUseSigmoid \/ Forward \/ Return
Spec == Init /\ [][Next]_vars

NextWeighted == Construct \/ ForwardWeighted \/ Return
SpecWeight == Init /\ [][NextWeighted]_vars

InitHeat ==
    /\ IdleFocal
    /\ heat = None
    /\ inputs \in Heatmaps
    /\ inputs0 = inputs
    /\ targets \in TargetMaps
    /\ pos_inds \in PosIndexSets
    /\ bcalls = <<>>
NextHeat == ConstructHeat \/ ForwardHeat
SpecHeat == InitHeat /\ [][NextHeat]_vars

(***************************************************************************)
(* Properties.                                                             *)
(***************************************************************************)
IsZero(e) == e.cp = 0 /\ e.cq = 0
PastEntry(c) == c.stage # "entry"
LossShape(c) == c.pred.shape
ValidIndices(c) ==
    /\ Ndim(c.target) = 1
    /\ \A k \in 1..Numel(c.target) :
        c.target.data[k] >= 0 /\ c.target.data[k] <= c.pred.shape[2]
IsBinaryLabels(c) == c.target.shape = c.pred.shape

\* C1: every BinaryFocalLoss.forward call leaves the contents of `inputs`
\* unchanged, and calls passing the same arguments end alike and return the
\* same (pos_loss, neg_loss) pair.
C1_ForwardIsPure ==
    /\ inputs = inputs0
    /\ \A i \in 1..Len(bcalls) : bcalls[i].after = bcalls[i].before
    /\ \A i, j \in 1..Len(bcalls) :
        bcalls[i].override = bcalls[j].override =>
            /\ bcalls[i].outcome = bcalls[j].outcome
            /\ bcalls[i].pos_loss = bcalls[j].pos_loss
            /\ bcalls[i].neg_loss = bcalls[j].neg_loss

\* C2: when the weight handling of either loss function finishes for a loss of
\* shape (N,C) and a weight that is not None, the weight has the rank of the
\* loss and its shape is (N,C) or (N,1).
C2_WeightFitsLoss ==
    (/\ CallMade(fcall)
     /\ ~IsNone(fcall.weight)
     /\ fcall.stage \in {"reduce", "done"})
    => /\ Ndim(fcall.wview) = Len(LossShape(fcall))
       /\ fcall.wview.shape \in {LossShape(fcall), <<LossShape(fcall)[1], 1>>}

LeadingIs(w, n) == Ndim(w) >= 1 /\ w.shape[1] = n
RowWise(c, w) ==
    \A i \in 0..(LossShape(c)[1] - 1), j \in 0..(LossShape(c)[2] - 1) :
        BroadcastGet(c.wview, LossShape(c), i * LossShape(c)[2] + j) = w.data[i + 1]
PerElement(c, w) ==
    /\ ~IsNone(c.wview)
    /\ c.wview.shape = LossShape(c)
    /\ \A i \in 0..(LossShape(c)[1] - 1), j \in 0..(LossShape(c)[2] - 1) :
        At(c.wview, i, j) = w.data[i * LossShape(c)[2] + j + 1]
Weighted(c) == CallMade(c) /\ ~IsNone(c.loss) /\ ~IsNone(c.weight)
WeightCases(c, w) ==
    /\ w.shape = LossShape(c) => c.wview = w
    /\ (w.shape # LossShape(c) /\ LeadingIs(w, LossShape(c)[1])) =>
        /\ c.wview = Tensor(<<Numel(w), 1>>, w.data)
        /\ w.shape = <<LossShape(c)[1]>> => RowWise(c, w)
    /\ (w.shape # LossShape(c) /\ ~LeadingIs(w, LossShape(c)[1])) =>
        IF Numel(w) = Prod(LossShape(c))
        THEN PerElement(c, w)
        ELSE c.outcome = "AssertionError" /\ c.stage = "weight" /\ IsNone(c.wview)

\* C3 as claimed: on either path, a weight of the loss's shape is used as it is;
\* otherwise a weight whose leading dimension is N becomes a column vector, so
\* that a weight of shape (N,) weights row i by weight[i]; otherwise the weight
\* has N*C elements (an assertion failure if not) and is reshaped to (N,C) in
\* row-major order.
C3_WeightReshapeAsClaimed == Weighted(fcall) => WeightCases(fcall, fcall.weight)

\* C3 as amended: the same for every weight of at least one dimension; a weight
\* of no dimension fails with IndexError at weight.size(0), before either
\* assertion.
C3_WeightReshape ==
    Weighted(fcall) =>
        IF Ndim(fcall.weight) = 0
        THEN fcall.outcome = "IndexError" /\ fcall.stage = "weight" /\ IsNone(fcall.wview)
        ELSE WeightCases(fcall, fcall.weight)

\* C3 witness: a (2,) weight was reshaped for a (2,2) loss on the reference path.
C3_RowWeightApplied ==
    /\ Weighted(fcall)
    /\ fcall.path = "py"
    /\ fcall.outcome = "ok"
    /\ LossShape(fcall) = <<2, 2>>
    /\ fcall.weight.shape = <<2>>

\* C4: the effective reduction is the override when one is supplied and the
\* constructor's otherwise, and a BinaryFocalLoss.forward call whose effective
\* reduction is not none, mean or sum fails at the entry check, with the
\* argument tensors as they were.
C4_BadReductionFailsAtEntry ==
    \A k \in 1..Len(bcalls) :
        LET c == bcalls[k]
            effective == IF c.override # "None" THEN c.override ELSE heat.reduction
        IN  /\ c.outcome = "ok" =>
                c.pos_loss.reduction = effective /\ c.neg_loss.reduction = effective
            /\ effective \notin ReductionModes =>
                c.outcome = "AssertionError" /\ c.stage = "entry" /\ c.after = c.before

\* C5 (reference path): FocalLoss.forward accepts a target of (N,) class
\* indices and a target of (N,C) binary labels alike; the target that reaches
\* the loss formula and the unreduced loss have shape (N,C).
C5_BothTargetFormsAccepted ==
    (/\ CallMade(fcall)
     /\ ~fcall.is_cuda
     /\ fcall.use_sigmoid = "True"
     /\ IsNone(fcall.weight)
     /\ fcall.override = "none"
     /\ ValidIndices(fcall) \/ IsBinaryLabels(fcall))
    => /\ fcall.outcome = "ok"
       /\ fcall.handed.shape = LossShape(fcall)
       /\ fcall.out.shape = LossShape(fcall)

NeverNotImplemented ==
    (CallMade(fcall) /\ ~tampered) => fcall.outcome # "NotImplementedError"
RejectedAtConstruction ==
    /\ ctor.use_sigmoid \notin {"-", "True"} =>
        ctor.outcome = "AssertionError" /\ IsNone(focal)
    /\ (~IsNone(focal) /\ ~tampered) => focal.use_sigmoid = "True"

\* C7 as claimed: a construction with use_sigmoid other than True is rejected; a
\* forward call on an instance whose use_sigmoid is false raises
\* NotImplementedError and computes no loss; an instance left as constructed
\* never reaches that branch.
C7_SigmoidOnlyAsClaimed ==
    /\ RejectedAtConstruction
    /\ (CallMade(fcall) /\ ~Truthy(fcall.use_sigmoid)) =>
        /\ fcall.outcome = "NotImplementedError"
        /\ IsNone(fcall.loss) /\ IsNone(fcall.out)
    /\ NeverNotImplemented

\* C7 as amended: the same, for a forward call whose reduction_override passes
\* the entry check; a malformed override fails that check first.
C7_SigmoidOnly ==
    /\ RejectedAtConstruction
    /\ (CallMade(fcall) /\ ~Truthy(fcall.use_sigmoid)) =>
        /\ IsNone(fcall.loss) /\ IsNone(fcall.out)
        /\ IF EntryCheck(fcall.override)
           THEN fcall.outcome = "NotImplementedError"
           ELSE fcall.outcome = "AssertionError" /\ fcall.stage = "entry"
    /\ NeverNotImplemented

\* C7 witness: a forward call reached the NotImplementedError branch.
C7_BranchReached ==
    /\ CallMade(fcall)
    /\ fcall.outcome = "NotImplementedError"
    /\ tampered

\* The call just made; the calls before it were the call just made in an
\* earlier state, and a record of bcalls never changes.
LastCall == bcalls[Len(bcalls)]

\* a / TScale^x < b / TScale^y
LessAt(a, x, b, y) == a * Pow(TScale, y) < b * Pow(TScale, x)
Betas == 0..(MaxBeta + 1)

\* C8 as claimed: where target < 1 a larger beta gives a strictly smaller
\* neg_weights; where target = 1 neg_weights is 0 for every beta and the
\* negative loss is exactly 0.
C8_NegWeightsAsClaimed ==
    (Len(bcalls) > 0 /\ PastEntry(LastCall)) =>
        \A k \in 1..Numel(targets) :
            /\ targets.data[k] < TScale =>
                \A b \in Betas :
                    b > heat.beta =>
                        LessAt(NegWeight(targets.data[k], b), b,
                               LastCall.neg_weights[k], heat.beta)
            /\ targets.data[k] = TScale =>
                /\ LastCall.neg_weights[k] = 0
                /\ IsZero(LastCall.neg_raw.data[k])

\* C8 as amended: where 0 < target < 1 a larger beta gives a strictly smaller
\* neg_weights; where target = 0 neg_weights is 1 for every beta; where
\* target = 1 neg_weights is 0 and the negative loss exactly 0 for every
\* beta > 0, and neg_weights is 1 for beta = 0.
C8_NegWeights ==
    (Len(bcalls) > 0 /\ PastEntry(LastCall)) =>
        \A k \in 1..Numel(targets) :
            /\ (0 < targets.data[k] /\ targets.data[k] < TScale) =>
                \A b \in Betas :
                    b > heat.beta =>
                        LessAt(NegWeight(targets.data[k], b), b,
                               LastCall.neg_weights[k], heat.beta)
            /\ targets.data[k] = 0 =>
                LastCall.neg_weights[k] = Pow(TScale, heat.beta)
            /\ (targets.data[k] = TScale /\ heat.beta > 0) =>
                /\ LastCall.neg_weights[k] = 0
                /\ IsZero(LastCall.neg_raw.data[k])
            /\ (targets.data[k] = TScale /\ heat.beta = 0) =>
                LastCall.neg_weights[k] = 1

\* C8 witness: a call computed neg_weights over a soft target and a peak.
C8_SoftAndPeak ==
    /\ Len(bcalls) > 0
    /\ LastCall.outcome = "ok"
    /\ heat.beta = 1
    /\ \E k \in 1..Numel(targets) : 0 < targets.data[k] /\ targets.data[k] < TScale
    /\ \E k \in 1..Numel(targets) : targets.data[k] = TScale

\* The same call on an instance whose suppression step is switched off.
WithoutStep(c) ==
    BinaryFocalLoss_forward([heat EXCEPT !.ignore_high_fp = IgnoreOff], c.before,
                            targets, pos_inds, None, None, None, c.override)

\* C9: with ignore_high_fp > 0 the negative loss before reduction is exactly 0
\* where the clamped prediction is >= ignore_high_fp and as computed where it is
\* below; with ignore_high_fp <= 0 it is the one computed without the step; the
\* positive loss is the one computed without the step.
C9_HighFpSuppression ==
    (Len(bcalls) > 0 /\ PastEntry(LastCall)) =>
        LET c == LastCall
            plain == WithoutStep(c)
        IN  /\ \A k \in 1..Numel(c.pred) :
                IF heat.ignore_high_fp > 0 /\ c.pred.data[k] >= heat.ignore_high_fp
                THEN IsZero(c.neg_kept.data[k])
                ELSE c.neg_kept.data[k] = c.neg_raw.data[k]
            /\ c.neg_raw = plain.neg_kept
            /\ heat.ignore_high_fp <= 0 => c.neg_loss = plain.neg_loss
            /\ c.pos_loss = plain.pos_loss

\* C9 witness: the step zeroed a nonzero negative loss at one location and kept
\* one at another.
C9_SuppressedAndKept ==
    /\ Len(bcalls) > 0
    /\ bcalls[1].outcome = "ok"
    /\ heat.ignore_high_fp > 0
    /\ \E k \in 1..Numel(inputs) :
        /\ bcalls[1].pred.data[k] >= heat.ignore_high_fp
        /\ ~IsZero(bcalls[1].neg_raw.data[k])
        /\ IsZero(bcalls[1].neg_kept.data[k])
    /\ \E k \in 1..Numel(inputs) :
        /\ bcalls[1].pred.data[k] < heat.ignore_high_fp
        /\ ~IsZero(bcalls[1].neg_kept.data[k])

\* C10: on a CUDA pred the accelerated function is called with the target as
\* passed; otherwise class indices in 0..C become an (N,C) 0/1 matrix whose row
\* i has its one 1 at column target[i], none when target[i] = C, and a class
\* index outside 0..C is rejected.
C10_Dispatch ==
    (/\ CallMade(fcall)
     /\ EntryCheck(fcall.override)
     /\ Truthy(fcall.use_sigmoid))
    => IF fcall.is_cuda
       THEN fcall.path = "cuda" /\ fcall.handed = fcall.target
       ELSE /\ fcall.path = "py"
            /\ (Ndim(fcall.target) = 1 /\ ValidIndices(fcall)) =>
                /\ fcall.handed.shape = LossShape(fcall)
                /\ \A i \in 0..(LossShape(fcall)[1] - 1),
                      j \in 0..(LossShape(fcall)[2] - 1) :
                    At(fcall.handed, i, j)
                        = IF fcall.target.data[i + 1] = j THEN 1 ELSE 0
            /\ (Ndim(fcall.target) = 1 /\ ~ValidIndices(fcall)) =>
                /\ fcall.outcome = "RuntimeError"
                /\ fcall.stage = "one_hot"
                /\ IsNone(fcall.handed) /\ IsNone(fcall.loss)

\* C10 witness: the reference path expanded a foreground and a background row.
C10_ExpandedRows ==
    /\ CallMade(fcall)
    /\ fcall.path = "py"
    /\ fcall.outcome = "ok"
    /\ LossShape(fcall) = <<2, 2>>
    /\ fcall.target = Tensor(<<2>>, <<1, 2>>)

====
